---- MODULE Spec2Model ----
(***************************************************************************)
(* Model of the voice-session pipeline of the travel navigator:            *)
(*   - VoiceSessionService (session identity, transcript validation),       *)
(*   - DeepgramVoiceAgentService (socket, inbound message dispatch),        *)
(*   - SpeakDestinationScreen (presentation state driven by callbacks).     *)
(* Eight specifications share the variables:                               *)
(*   SpecValidate  single calls of validateTranscript and                  *)
(*                 updateSessionWithTranscript on drawn inputs,             *)
(*   SpecSession   sessions created in sequence and stamped with tagged     *)
(*                 transcripts while the clock advances,                    *)
(*   Spec          the screen, the services it creates and their sockets:   *)
(*                 connection with retry, inbound JSON frames, capture      *)
(*                 start and stop, confirmation, reset and unmount.         *)
(*   SpecConnect   connect() and its retries, with room for every socket   *)
(*                 one connect() can open,                                 *)
(*   SpecCapture   one session with its native capture: the recorded file, *)
(*                 the processAudioStream() runs and the byte ranges they  *)
(*                 hand to the socket,                                     *)
(*   SpecFrames    that capture together with the inbound frames and the   *)
(*                 connection timeout,                                     *)
(*   SpecConfig    starts of a session under every kind of API key,        *)
(*   SpecListen    startListening() calls made on a service directly.      *)
(* All take the native platform; the configuration is valid except in      *)
(* SpecConfig, the audio bytes are streamed in SpecCapture and SpecFrames  *)
(* only, and playback is not modelled.                                     *)
(***************************************************************************)
EXTENDS Integers, Sequences, FiniteSets, TLC

(***************************************************************************)
(* Bounds of the exploration.                                              *)
(***************************************************************************)
MaxSessions == 2
MaxTicks == 1

(***************************************************************************)
(* State                                                                   *)
(***************************************************************************)
VARIABLES
    \* the session service and its caller
    now,        \* Date.now(), in ms since the origin of the exploration
    ticks,      \* clock advances so far
    sessions,   \* the session values held by the caller, in creation order
    origin,     \* per held session: the session id its transcript was tagged with
    lastTag,    \* the last tagged transcript applied to a held session
    lastCall,   \* the last single call of the session service and what it returned
    \* SpeakDestinationScreen
    flowState, recognizedText, extractedDestination, errorMessage,
    isAgentSpeaking, isMounted,
    deepgramServiceRef,  \* the service the screen holds, 0 for null
    stopWaiting,         \* the service whose stopListening() the screen awaits, 0 for none
    graceTimer,          \* the 5 s timer of stopListening and the values it closed over
    confirmRun,          \* where the running confirmDestination() stands
    \* DeepgramVoiceAgentService instances and their sockets
    svc, sock, nServices, nSockets, nMessages,
    lastEvent,  \* the inbound event dispatched by the last step, if any
    \* native capture
    file,       \* per service: the bytes its recorder has written to its file
    runs,       \* the processAudioStream() calls in flight
    audio,      \* per service: the byte ranges handed to ws.send(), in order
    reported,   \* per service: the byte ranges sendAudio() gave up with onError
    listens,    \* the startListening() calls made on the services directly
    \* configuration
    apiKey      \* the length of DEEPGRAM_API_KEY, 0 when the variable is not set

sessionVars == <<now, ticks, sessions, origin, lastTag, lastCall>>
screenVars == <<flowState, recognizedText, extractedDestination, errorMessage,
                isAgentSpeaking, isMounted, deepgramServiceRef, stopWaiting, graceTimer,
                confirmRun>>
serviceVars == <<svc, sock, nServices, nSockets, nMessages, lastEvent>>
captureVars == <<file, runs, audio, reported, listens>>
configVars == <<apiKey>>
vars == <<sessionVars, screenVars, serviceVars, captureVars, configVars>>

(***************************************************************************)
(* JavaScript values.  A string is its sequence of characters; null and    *)
(* a non-string value are kept apart from every string.                    *)
(***************************************************************************)
Str(cs) == [kind |-> "string", chars |-> cs]
NullV == [kind |-> "null", chars |-> <<>>]
NumberV == [kind |-> "number", chars |-> <<>>]

LowerChars == {"a","b","c","d","e","f","g","h","i","j","k","l","m",
               "n","o","p","q","r","s","t","u","v","w","x","y","z"}
UpperChars == {"A","B","C","D","E","F","G","H","I","J","K","L","M",
               "N","O","P","Q","R","S","T","U","V","W","X","Y","Z"}
DigitChars == {"0","1","2","3","4","5","6","7","8","9"}
\* /[a-zA-Z0-9]/
IsAlnum(c) == c \in LowerChars \cup UpperChars \cup DigitChars
\* /\s/ and the characters String.prototype.trim removes
IsWs(c) == c \in {" ", "\t", "\n", "\r", "\f"}

RECURSIVE FirstNonWs(_, _)
FirstNonWs(cs, i) ==
    IF i > Len(cs) THEN i
    ELSE IF IsWs(cs[i]) THEN FirstNonWs(cs, i + 1) ELSE i

RECURSIVE LastNonWs(_, _)
LastNonWs(cs, i) ==
    IF i < 1 THEN i
    ELSE IF IsWs(cs[i]) THEN LastNonWs(cs, i - 1) ELSE i

\* String.prototype.trim on the characters of a string
Trim(cs) == SubSeq(cs, FirstNonWs(cs, 1), LastNonWs(cs, Len(cs)))

\* n copies of the character c
Rep(c, n) == [i \in 1..n |-> c]

(***************************************************************************)
(* VoiceSessionService                                                     *)
(***************************************************************************)
MAX_SESSION_AGE == 5 * 60 * 1000
MAX_TRANSCRIPT_LENGTH == 500

\* Math.random().toString(36).substr(2, 9): the outcomes explored
RandomSuffixes == {"4fzzzxjyl", "8w3c1k9qa"}
RecordingSuffixes == {"k2j5h8d1s"}

\* `session-${Date.now()}-${suffix}`: equal exactly when both parts are equal
generateSessionId(t, suffix) == [prefix |-> "session", ms |-> t, rnd |-> suffix]
generateRecordingId(t, suffix) == [prefix |-> "recording", ms |-> t, rnd |-> suffix]

\* createVoiceSession that hands out a session marked validated
createVoiceSession_Validated(t, r1, r2) ==
    [ sessionId   |-> generateSessionId(t, r1),
      recordingId |-> generateRecordingId(t, r2),
      timestamp   |-> t,
      status      |-> "idle",
      transcript  |-> NullV,
      audioUri    |-> NullV,
      isValidated |-> TRUE ]

createVoiceSession(t, r1, r2) ==
    [ sessionId   |-> generateSessionId(t, r1),
      recordingId |-> generateRecordingId(t, r2),
      timestamp   |-> t,
      status      |-> "idle",
      transcript  |-> NullV,
      audioUri    |-> NullV,
      isValidated |-> FALSE ]

\* currentSession === null
NoSession == [ sessionId |-> [prefix |-> "none", ms |-> 0, rnd |-> ""],
               recordingId |-> [prefix |-> "none", ms |-> 0, rnd |-> ""],
               timestamp |-> 0, status |-> "null", transcript |-> NullV,
               audioUri |-> NullV, isValidated |-> FALSE ]

ErrEmpty == "Transcript is empty or invalid"
ErrEmptyTrim == "Transcript is empty after trimming"
ErrTooLong == "Transcript exceeds maximum length"
ErrNoSession == "No active session"
ErrMismatch == "Transcript does not match current session"
ErrExpired == "Session has expired"
ErrSpecial == "Transcript contains only special characters"
NoError == "none"

Invalid(e) == [valid |-> FALSE, error |-> e]
Valid == [valid |-> TRUE, error |-> NoError]

\* /^[^a-zA-Z0-9\s]+$/.test(trimmed)
OnlySpecialChars(cs) ==
    /\ Len(cs) > 0
    /\ \A i \in 1..Len(cs) : ~IsAlnum(cs[i]) /\ ~IsWs(cs[i])

\* validateTranscript without the session-match rule
validateTranscript_NoMatchRule(transcript, sessionId, currentSession, t) ==
    IF transcript.kind # "string" \/ Len(transcript.chars) = 0
      THEN Invalid(ErrEmpty)
    ELSE LET trimmed == Trim(transcript.chars) IN
         IF Len(trimmed) = 0 THEN Invalid(ErrEmptyTrim)
         ELSE IF Len(trimmed) > MAX_TRANSCRIPT_LENGTH THEN Invalid(ErrTooLong)
         ELSE IF currentSession = NoSession THEN Invalid(ErrNoSession)
         ELSE IF t - currentSession.timestamp > MAX_SESSION_AGE THEN Invalid(ErrExpired)
         ELSE IF OnlySpecialChars(trimmed) THEN Invalid(ErrSpecial)
         ELSE Valid

\* validateTranscript with the session rules ahead of the text rules
validateTranscript_SessionFirst(transcript, sessionId, currentSession, t) ==
    IF currentSession = NoSession THEN Invalid(ErrNoSession)
    ELSE IF currentSession.sessionId # sessionId THEN Invalid(ErrMismatch)
    ELSE IF transcript.kind # "string" \/ Len(transcript.chars) = 0
      THEN Invalid(ErrEmpty)
    ELSE LET trimmed == Trim(transcript.chars) IN
         IF Len(trimmed) = 0 THEN Invalid(ErrEmptyTrim)
         ELSE IF Len(trimmed) > MAX_TRANSCRIPT_LENGTH THEN Invalid(ErrTooLong)
         ELSE IF t - currentSession.timestamp > MAX_SESSION_AGE THEN Invalid(ErrExpired)
         ELSE IF OnlySpecialChars(trimmed) THEN Invalid(ErrSpecial)
         ELSE Valid

\* validateTranscript with the age compared by >= instead of >
validateTranscript_ExpiryOffByOne(transcript, sessionId, currentSession, t) ==
    IF transcript.kind # "string" \/ Len(transcript.chars) = 0
      THEN Invalid(ErrEmpty)
    ELSE LET trimmed == Trim(transcript.chars) IN
         IF Len(trimmed) = 0 THEN Invalid(ErrEmptyTrim)
         ELSE IF Len(trimmed) > MAX_TRANSCRIPT_LENGTH THEN Invalid(ErrTooLong)
         ELSE IF currentSession = NoSession THEN Invalid(ErrNoSession)
         ELSE IF currentSession.sessionId # sessionId THEN Invalid(ErrMismatch)
         ELSE IF t - currentSession.timestamp >= MAX_SESSION_AGE THEN Invalid(ErrExpired)
         ELSE IF OnlySpecialChars(trimmed) THEN Invalid(ErrSpecial)
         ELSE Valid

\* validateTranscript that remembers the transcript of the call before and
\* rejects a repetition of it
validateTranscript_RejectsRepeat(transcript, sessionId, currentSession, t) ==
    IF lastCall.op = "validate" /\ lastCall.text = transcript /\ lastCall.result.valid
      THEN Invalid(ErrEmpty)
    ELSE IF transcript.kind # "string" \/ Len(transcript.chars) = 0
      THEN Invalid(ErrEmpty)
    ELSE LET trimmed == Trim(transcript.chars) IN
         IF Len(trimmed) = 0 THEN Invalid(ErrEmptyTrim)
         ELSE IF Len(trimmed) > MAX_TRANSCRIPT_LENGTH THEN Invalid(ErrTooLong)
         ELSE IF currentSession = NoSession THEN Invalid(ErrNoSession)
         ELSE IF currentSession.sessionId # sessionId THEN Invalid(ErrMismatch)
         ELSE IF t - currentSession.timestamp > MAX_SESSION_AGE THEN Invalid(ErrExpired)
         ELSE IF OnlySpecialChars(trimmed) THEN Invalid(ErrSpecial)
         ELSE Valid

validateTranscript(transcript, sessionId, currentSession, t) ==
    IF transcript.kind # "string" \/ Len(transcript.chars) = 0
      THEN Invalid(ErrEmpty)
    ELSE LET trimmed == Trim(transcript.chars) IN
         IF Len(trimmed) = 0
           THEN Invalid(ErrEmptyTrim)
         ELSE IF Len(trimmed) > MAX_TRANSCRIPT_LENGTH
           THEN Invalid(ErrTooLong)
         ELSE IF currentSession = NoSession
           THEN Invalid(ErrNoSession)
         ELSE IF currentSession.sessionId # sessionId
           THEN Invalid(ErrMismatch)
         ELSE IF t - currentSession.timestamp > MAX_SESSION_AGE
           THEN Invalid(ErrExpired)
         ELSE IF OnlySpecialChars(trimmed)
           THEN Invalid(ErrSpecial)
         ELSE Valid

\* updateSessionWithTranscript that stamps the text as received
updateSessionWithTranscript_Untrimmed(session, transcript, sessionId, t) ==
    IF ~validateTranscript(transcript, sessionId, session, t).valid
      THEN NoSession
    ELSE [session EXCEPT !.transcript = transcript,
                         !.isValidated = TRUE,
                         !.status = "completed"]

\* the value returned: the stamped session, or NoSession for null
updateSessionWithTranscript(session, transcript, sessionId, t) ==
    IF ~validateTranscript(transcript, sessionId, session, t).valid
      THEN NoSession
    ELSE [session EXCEPT !.transcript = Str(Trim(transcript.chars)),
                         !.isValidated = TRUE,
                         !.status = "completed"]

\* v.trim() raises a TypeError unless v is a string; session.sessionId raises
\* one when session is null
TrimThrows(v) == v.kind # "string"
DerefThrows(session) == session = NoSession

\* validateTranscript without its test of currentSession
validateTranscriptThrows_NoSessionTest(transcript, sessionId, currentSession, t) ==
    IF transcript.kind # "string" \/ Len(transcript.chars) = 0 THEN FALSE
    ELSE IF TrimThrows(transcript) THEN TRUE
    ELSE LET trimmed == Trim(transcript.chars) IN
         IF Len(trimmed) = 0 THEN FALSE
         ELSE IF Len(trimmed) > MAX_TRANSCRIPT_LENGTH THEN FALSE
         ELSE DerefThrows(currentSession)

\* whether validateTranscript raises: it would at transcript.trim() or at
\* currentSession.sessionId, were they reached with a value that has no such
\* member
validateTranscriptThrows(transcript, sessionId, currentSession, t) ==
    IF transcript.kind # "string" \/ Len(transcript.chars) = 0 THEN FALSE
    ELSE IF TrimThrows(transcript) THEN TRUE
    ELSE LET trimmed == Trim(transcript.chars) IN
         IF Len(trimmed) = 0 THEN FALSE
         ELSE IF Len(trimmed) > MAX_TRANSCRIPT_LENGTH THEN FALSE
         ELSE IF currentSession = NoSession THEN FALSE
         ELSE DerefThrows(currentSession)

\* whether updateSessionWithTranscript raises: in its validateTranscript, or
\* at its own transcript.trim()
updateSessionWithTranscriptThrows(session, transcript, sessionId, t) ==
    \/ validateTranscriptThrows(transcript, sessionId, session, t)
    \/ /\ validateTranscript(transcript, sessionId, session, t).valid
       /\ TrimThrows(transcript)

\* clearSession that hands back a fresh idle session
clearSession_FreshSession == createVoiceSession(0, "4fzzzxjyl", "k2j5h8d1s")

clearSession == NoSession


NoCall == [op |-> "none", text |-> NullV, sid |-> NoSession.sessionId,
           session |-> NoSession, at |-> 0, result |-> Valid, returned |-> NoSession]
NoTag == [target |-> NoSession.sessionId, tag |-> NoSession.sessionId,
          result |-> Valid]

\* transcripts handed to the validation gate
Texts == { NullV, NumberV, Str(<<>>),
           Str(<<" ", " ", " ">>),
           Str(<<"P","a","r","i","s">>),
           Str(<<" ","R","o","m","e","\n">>),
           Str(<<"!","?","!">>),
           Str(<<"!"," ","?">>),
           Str(Rep("a", MAX_TRANSCRIPT_LENGTH)),
           Str(<<" ">> \o Rep("a", MAX_TRANSCRIPT_LENGTH) \o <<" ">>),
           Str(Rep("a", MAX_TRANSCRIPT_LENGTH + 1)),
           Str(Rep("!", MAX_TRANSCRIPT_LENGTH + 1)) }

\* the short transcripts used when several sessions are created in sequence
SessionTexts == { Str(<<" ", " ", " ">>),
                  Str(<<"P","a","r","i","s"," ">>),
                  Str(<<"R","o","m","e">>),
                  Str(Rep("a", MAX_TRANSCRIPT_LENGTH + 1)),
                  Str(<<"!","?","!">>) }

\* the clock advances by 1 ms or by just over the maximum session age
ClockSteps == {1, MAX_SESSION_AGE + 1}

\* ages of a session at the time of a call, around the expiry boundary
Ages == {0, MAX_SESSION_AGE - 1, MAX_SESSION_AGE, MAX_SESSION_AGE + 1,
         2 * MAX_SESSION_AGE}

\* a session id no session was created with
ForeignId == [prefix |-> "session", ms |-> 0, rnd |-> "zzzzzzzzz"]
SessionIds == {sessions[i].sessionId : i \in 1..Len(sessions)} \cup {ForeignId}
HeldSessions == {sessions[i] : i \in 1..Len(sessions)} \cup {NoSession}

(***************************************************************************)
(* Screen and connection: bounds, values and initial state                 *)
(***************************************************************************)
\* services the screen creates (Start presses), sockets opened over all
\* services (first attempts and retries), inbound JSON frames delivered
MaxServices == 2
MaxSockets == 2
MaxMessages == 1
\* bytes one recorder writes, processAudioStream() calls in flight at once
MaxFileBytes == 2
MaxRuns == 2
\* startListening() calls made on the services directly
MaxListens == 3
\* services created in SpecConfig
MaxConfigServices == 4

\* private maxReconnectAttempts: number = 3
maxReconnectAttempts == 3

\* DEEPGRAM_API_KEY.length < 20
MIN_KEY_LENGTH == 20

FlowStates == {"idle", "listening", "processing", "confirming", "geocoding",
               "locating", "routing", "ready", "error"}

\* one DeepgramVoiceAgentService together with the startListening() run of the
\* screen that creates it; pc is where that run stands:
\*   perm     awaiting requestPermissions()
\*   connect  awaiting initWebSocket() of the current attempt
\*   backoff  awaiting the retry delay of connectWithRetry
\*   prepare  awaiting service.startListening()
\*   started  startListening() returned
\*   failed   the run ended in its catch block
\* attempt is the argument of the running connectWithRetry, backoff the delay
\* (ms) it is waiting for; recording is the Audio.Recording held, stopping
\* that its stopAndUnloadAsync() is awaited; connErrors counts the calls of
\* callbacks.onError that report a failed or lost connection
NoService == [ pc |-> "unused", superseded |-> FALSE, ws |-> 0, isConnected |-> FALSE,
               settingsApplied |-> FALSE, attempt |-> 0, backoff |-> 0,
               isRecording |-> FALSE, recording |-> FALSE, recordingUri |-> FALSE,
               stopping |-> FALSE, lastFilePosition |-> 0, connErrors |-> 0 ]

\* one WebSocket: readyState, whether it ever opened, the connection timeout
\* armed for it, whether the promise of its initWebSocket() is settled, the
\* frames sent on it and the ids of the function calls received on it while
\* it was open
NoSocket == [ owner |-> 0, state |-> "NONE", opened |-> FALSE, timer |-> FALSE,
              settled |-> FALSE, sent |-> <<>>, requests |-> {} ]

Paris == Str(<<"P","a","r","i","s">>)
Rome == Str(<<"R","o","m","e">>)
Blank == Str(<<" ", " ", " ">>)
Empty == Str(<<>>)

\* the input of a FunctionCallRequest: absent (undefined or null), or an object
\* with its destination
NoInput == [present |-> FALSE, destination |-> NullV]
Input(d) == [present |-> TRUE, destination |-> d]

\* an inbound JSON frame
Frame(type, role, content, name, input) ==
    [type |-> type, role |-> role, content |-> content,
     function_name |-> name, input |-> input]
ConversationText(role, content) == Frame("ConversationText", role, content, "", NoInput)
FunctionCallRequest(name, input) == Frame("FunctionCallRequest", "", NullV, name, input)
Plain(type) == Frame(type, "", NullV, "", NoInput)

\* the inbound frames explored
Messages ==
    { ConversationText("user", Paris),
      ConversationText("user", Blank),
      ConversationText("assistant", Rome),
      FunctionCallRequest("start_navigation", Input(Rome)),
      FunctionCallRequest("start_navigation", Input(Empty)),
      FunctionCallRequest("start_navigation", NoInput),
      FunctionCallRequest("lookup_weather", Input(Rome)),
      Plain("SettingsApplied"),
      Plain("AgentStartedSpeaking"),
      Plain("AgentAudioDone"),
      Plain("Error"),
      Plain("Welcome") }

\* outbound frames
SettingsFrame == [type |-> "Settings", function_call_id |-> 0]
FunctionCallResponse(callId) == [type |-> "FunctionCallResponse", function_call_id |-> callId]

\* the inbound event dispatched by the last step: the frame (or socket error),
\* the service whose callbacks ran, whether that service had been superseded,
\* the flow state before the dispatch, and whether the callbacks changed what
\* the screen presents
NoEvent == [ frame |-> Plain("none"), svc |-> 0, stale |-> FALSE,
             flowBefore |-> "idle", changed |-> FALSE ]

\* one processAudioStream() call: the service, the await it stands at
\* ("info" for getInfoAsync, "read" for readAsStringAsync), and the position
\* and size its read was issued with
NoRun == [ svc |-> 0, stage |-> "none", position |-> 0, currentSize |-> 0 ]

\* one startListening() call: the service, where it stands ("await" between
\* its isRecording test and the end of prepareToRecordAsync(), "started",
\* "threw", or "returned" by the test), whether it was issued while another
\* call on the service stood at its awaits, and whether it ran
\* new Audio.Recording()
NoListen == [ svc |-> 0, stage |-> "none", second |-> FALSE, created |-> FALSE ]

\* the 5 s timer of the screen's stopListening with the values its closure holds
NoTimer == [ armed |-> FALSE, flowState |-> "idle", recognizedText |-> Empty,
             extractedDestination |-> NullV ]

InitCaptureVars ==
    /\ file = [s \in 1..MaxServices |-> 0]
    /\ runs = [i \in 1..MaxRuns |-> NoRun]
    /\ audio = [s \in 1..MaxServices |-> <<>>]
    /\ reported = [s \in 1..MaxServices |-> <<>>]
    /\ listens = [i \in 1..MaxListens |-> NoListen]

InitScreen ==
    /\ flowState = "idle"
    /\ recognizedText = Empty
    /\ extractedDestination = NullV
    /\ errorMessage = ""
    /\ isAgentSpeaking = FALSE
    /\ isMounted = TRUE
    /\ deepgramServiceRef = 0
    /\ stopWaiting = 0
    /\ graceTimer = NoTimer
    /\ confirmRun = "none"
    /\ svc = [s \in 1..MaxServices |-> NoService]
    /\ sock = [k \in 1..MaxSockets |-> NoSocket]
    /\ nServices = 0
    /\ nSockets = 0
    /\ nMessages = 0
    /\ lastEvent = NoEvent
    /\ InitCaptureVars
    /\ apiKey = MIN_KEY_LENGTH

InitSessionVars ==
    /\ now = 0
    /\ ticks = 0
    /\ sessions = <<>>
    /\ origin = <<>>
    /\ lastTag = NoTag
    /\ lastCall = NoCall

(***************************************************************************)
(* The session service driven directly                                     *)
(***************************************************************************)
\* SpecSession: no session yet, the clock at its origin
InitSession == InitSessionVars /\ InitScreen

\* SpecValidate: the inputs of one call: at most one session, created at
\* some instant, and the clock at some age of it
InitValidate ==
    /\ InitScreen
    /\ ticks = 0
    /\ lastCall = NoCall
    /\ lastTag = NoTag
    /\ \E t0 \in {1000}, age \in Ages :
         /\ now = t0 + age
         /\ \/ sessions = <<>> /\ origin = <<>>
            \/ \E r1 \in RandomSuffixes, r2 \in RandomSuffixes :
                 /\ sessions = <<createVoiceSession(t0, r1, r2)>>
                 /\ origin = <<ForeignId>>

Tick ==
    /\ ticks < MaxTicks
    /\ \E d \in ClockSteps : now' = now + d
    /\ ticks' = ticks + 1
    /\ UNCHANGED <<sessions, origin, lastTag, lastCall, screenVars, serviceVars, captureVars, configVars>>

CreateVoiceSession ==
    /\ Len(sessions) < MaxSessions
    /\ \E r1 \in RandomSuffixes, r2 \in RecordingSuffixes :
         sessions' = Append(sessions, createVoiceSession(now, r1, r2))
    /\ origin' = Append(origin, ForeignId)
    /\ UNCHANGED <<now, ticks, lastTag, lastCall, screenVars, serviceVars, captureVars, configVars>>

\* a tagged transcript is applied to a held session; the caller keeps the
\* stamped session in place of the one it passed
StampHeldSession ==
    /\ \E i \in 1..Len(sessions), text \in SessionTexts, sid \in SessionIds :
         LET r == updateSessionWithTranscript(sessions[i], text, sid, now) IN
         /\ lastTag' = [target |-> sessions[i].sessionId, tag |-> sid,
                        result |-> validateTranscript(text, sid, sessions[i], now)]
         /\ sessions' = IF r = NoSession THEN sessions ELSE [sessions EXCEPT ![i] = r]
         /\ origin' = IF r = NoSession THEN origin ELSE [origin EXCEPT ![i] = sid]
    /\ UNCHANGED <<now, ticks, lastCall, screenVars, serviceVars, captureVars, configVars>>

NextSession ==
    \/ Tick
    \/ CreateVoiceSession
    \/ StampHeldSession

SpecSession == InitSession /\ [][NextSession]_vars

ValidateTranscript ==
    /\ \E text \in Texts, sid \in SessionIds, s \in HeldSessions :
         lastCall' = [op |-> "validate", text |-> text, sid |-> sid, session |-> s,
                      at |-> now, result |-> validateTranscript(text, sid, s, now),
                      returned |-> NoSession]
    /\ UNCHANGED <<now, ticks, sessions, origin, lastTag, screenVars, serviceVars, captureVars, configVars>>

\* the call may be made with no session at all (null)
UpdateSessionWithTranscript ==
    /\ \E s \in HeldSessions, text \in Texts, sid \in SessionIds :
         lastCall' = [op |-> "update", text |-> text, sid |-> sid,
                      session |-> s, at |-> now,
                      result |-> validateTranscript(text, sid, s, now),
                      returned |-> updateSessionWithTranscript(s, text, sid, now)]
    /\ UNCHANGED <<now, ticks, sessions, origin, lastTag, screenVars, serviceVars, captureVars, configVars>>

\* the caller replaces its current session by what clearSession() returns
ClearSession ==
    /\ lastCall' = [op |-> "clear", text |-> NullV, sid |-> NoSession.sessionId,
                    session |-> IF sessions = <<>> THEN NoSession ELSE sessions[1],
                    at |-> now, result |-> Valid, returned |-> clearSession]
    /\ sessions' = IF clearSession = NoSession THEN <<>> ELSE <<clearSession>>
    /\ origin' = IF clearSession = NoSession THEN <<>> ELSE <<ForeignId>>
    /\ UNCHANGED <<now, ticks, lastTag, screenVars, serviceVars, captureVars, configVars>>

NextValidate ==
    \/ ValidateTranscript
    \/ UpdateSessionWithTranscript
    \/ ClearSession

SpecValidate == InitValidate /\ [][NextValidate]_vars

(***************************************************************************)
(* DeepgramVoiceAgentService: sockets, sending, teardown                   *)
(***************************************************************************)
ErrKeyMissing == "EXPO_PUBLIC_DEEPGRAM_API_KEY is not set. Please configure this environment variable."
ErrKeyTooShort == "EXPO_PUBLIC_DEEPGRAM_API_KEY appears to be invalid (too short)."

\* verifyDeepgramConfiguration without its test of the length
verifyDeepgramConfiguration_NoLengthTest(key) ==
    IF key = 0 THEN [isValid |-> FALSE, error |-> ErrKeyMissing]
    ELSE [isValid |-> TRUE, error |-> ""]

\* verifyDeepgramConfiguration() on a key of the given length
verifyDeepgramConfiguration(key) ==
    IF key = 0 THEN [isValid |-> FALSE, error |-> ErrKeyMissing]
    ELSE IF key < MIN_KEY_LENGTH THEN [isValid |-> FALSE, error |-> ErrKeyTooShort]
    ELSE [isValid |-> TRUE, error |-> ""]

\* this.ws && this.ws.readyState === WebSocket.OPEN
WsOpen(S, K, s) == S[s].ws # 0 /\ K[S[s].ws].state = "OPEN"

\* send(data): the frame goes out on this.ws when it is open, and is dropped
\* with a warning otherwise
send(S, K, s, data) ==
    IF WsOpen(S, K, s) THEN [K EXCEPT ![S[s].ws].sent = Append(@, data)] ELSE K

sendSettings_NotSent(S, K, s) == K
sendSettings(S, K, s) == send(S, K, s, SettingsFrame)

sendFunctionCallResponse(S, K, s, callId) == send(S, K, s, FunctionCallResponse(callId))

\* stopListening() of the service up to its first await (native): nothing when
\* not recording, else isRecording is dropped and stopAndUnloadAsync() awaited
stopListening(r) ==
    IF ~r.isRecording THEN r
    ELSE [r EXCEPT !.isRecording = FALSE, !.stopping = r.recording]

\* disconnect() on the service's fields
disconnect(r) ==
    [(IF r.recording THEN stopListening(r) ELSE r)
        EXCEPT !.isConnected = FALSE, !.settingsApplied = FALSE, !.ws = 0]

\* WebSocket.close(): a connecting or open socket starts closing
close(K, k) ==
    IF k # 0 /\ K[k].state \in {"CONNECTING", "OPEN"}
    THEN [K EXCEPT ![k].state = "CLOSING"]
    ELSE K

\* if (deepgramServiceRef.current) deepgramServiceRef.current.disconnect()
SvcDisconnected(S, s) == IF s = 0 THEN S ELSE [S EXCEPT ![s] = disconnect(S[s])]
SockDisconnected(S, K, s) == IF s = 0 THEN K ELSE close(K, S[s].ws)

\* a new voice session is started or the flow is reset: the services created
\* so far belong to an earlier session
Superseded(S) ==
    [s \in DOMAIN S |-> IF S[s].pc = "unused" THEN S[s] ELSE [S[s] EXCEPT !.superseded = TRUE]]

\* new WebSocket(wsUrl) with its 10 s connection timeout armed
NewSocket(s) == [NoSocket EXCEPT !.owner = s, !.state = "CONNECTING", !.timer = TRUE]

(***************************************************************************)
(* SpeakDestinationScreen: presentation state and the callbacks it hands   *)
(* to the service                                                          *)
(***************************************************************************)
Screen == [ flowState |-> flowState, recognizedText |-> recognizedText,
            extractedDestination |-> extractedDestination,
            errorMessage |-> errorMessage, isAgentSpeaking |-> isAgentSpeaking ]

SetScreen(scr) ==
    /\ flowState' = scr.flowState
    /\ recognizedText' = scr.recognizedText
    /\ extractedDestination' = scr.extractedDestination
    /\ errorMessage' = scr.errorMessage
    /\ isAgentSpeaking' = scr.isAgentSpeaking

\* what the four fields a stale event must not touch look like
Presentation(scr) == <<scr.flowState, scr.recognizedText, scr.extractedDestination,
                       scr.errorMessage>>

\* JavaScript truthiness of a string-or-null value
Truthy(v) == v.kind = "string" /\ Len(v.chars) > 0

onTranscript(scr, text, role) ==
    IF isMounted /\ role = "user" THEN [scr EXCEPT !.recognizedText = text] ELSE scr

\* args.destination on an absent input raises a TypeError
onFunctionCallThrows(functionName, args) ==
    functionName = "start_navigation" /\ ~args.present

onFunctionCall(scr, functionName, args) ==
    IF functionName = "start_navigation" /\ args.present /\ Truthy(args.destination)
       /\ isMounted
    THEN [scr EXCEPT !.extractedDestination = args.destination,
                     !.recognizedText = args.destination,
                     !.flowState = "confirming"]
    ELSE scr

onAgentSpeaking(scr, speaking) ==
    IF isMounted THEN [scr EXCEPT !.isAgentSpeaking = speaking] ELSE scr

onError(scr, message) ==
    IF isMounted THEN [scr EXCEPT !.flowState = "error", !.errorMessage = message]
    ELSE scr

\* the catch block of the screen's startListening
catchStart(scr, message) ==
    IF isMounted THEN [scr EXCEPT !.flowState = "error", !.errorMessage = message]
    ELSE scr

\* handleMessage: the callbacks a frame runs, in order
dispatch(scr, m) ==
    IF m.type = "ConversationText" THEN onTranscript(scr, m.content, m.role)
    ELSE IF m.type = "FunctionCallRequest" THEN onFunctionCall(scr, m.function_name, m.input)
    ELSE IF m.type = "AgentStartedSpeaking" THEN onAgentSpeaking(scr, TRUE)
    ELSE IF m.type = "AgentAudioDone" THEN onAgentSpeaking(scr, FALSE)
    ELSE IF m.type = "Error" THEN onError(scr, "Unknown error from Deepgram")
    ELSE scr

\* the outcome of a rejected initWebSocket() in connectWithRetry
\* Math.pow(2, attempt) * 1000
Backoff(attempt) == (2 ^ attempt) * 1000

\* ws.onerror rejects the promise of initWebSocket() only before the service
\* is connected, and a promise that is settled stays as it is
onerrorRejects_Always(isConnected, settled) == TRUE
onerrorRejects(isConnected, settled) == ~isConnected /\ ~settled

AfterReject(r) ==
    IF r.attempt < maxReconnectAttempts
    THEN [r EXCEPT !.pc = "backoff", !.backoff = Backoff(r.attempt)]
    ELSE [r EXCEPT !.pc = "failed"]

Event(m, s, before, after) ==
    [ frame |-> m, svc |-> s, stale |-> svc[s].superseded,
      flowBefore |-> before.flowState,
      changed |-> Presentation(before) # Presentation(after) ]

(***************************************************************************)
(* Spec: the screen, its services and their sockets                        *)
(***************************************************************************)
Init == InitSessionVars /\ InitScreen

\* the Start button (idle): startListening() up to await requestPermissions()
\* With an invalid Deepgram configuration it ends at once in the error state.
PressStart ==
    /\ isMounted /\ flowState = "idle"
    /\ LET deepgramConfig == verifyDeepgramConfiguration(apiKey) IN
       IF ~deepgramConfig.isValid
       THEN /\ flowState' = "error"
            /\ errorMessage' = deepgramConfig.error
            /\ UNCHANGED <<recognizedText, extractedDestination, svc, sock,
                           deepgramServiceRef, nServices>>
       ELSE /\ nServices + 1 \in DOMAIN svc
            /\ errorMessage' = ""
            /\ recognizedText' = Empty
            /\ extractedDestination' = NullV
            /\ svc' = [Superseded(SvcDisconnected(svc, deepgramServiceRef)) EXCEPT
                         ![nServices + 1] = [NoService EXCEPT !.pc = "perm"]]
            /\ sock' = SockDisconnected(svc, sock, deepgramServiceRef)
            /\ deepgramServiceRef' = 0
            /\ nServices' = nServices + 1
            /\ UNCHANGED flowState
    /\ lastEvent' = NoEvent
    /\ UNCHANGED <<isAgentSpeaking, isMounted, stopWaiting, graceTimer,
                   confirmRun, nSockets, nMessages, sessionVars, captureVars, configVars>>

\* requestPermissions() resolves: the flow is listening, the service is created
\* and connect() opens the socket of its first attempt
\* (connect() throws its configuration error instead when the key is invalid,
\* which ends startListening in its catch block)
PermissionGranted(s) ==
    /\ svc[s].pc = "perm"
    /\ LET configCheck == verifyDeepgramConfiguration(apiKey) IN
       IF ~configCheck.isValid
       THEN /\ SetScreen(catchStart(Screen, configCheck.error))
            /\ svc' = [svc EXCEPT ![s].pc = "failed"]
            /\ UNCHANGED <<sock, nSockets>>
       ELSE /\ nSockets + 1 \in DOMAIN sock
            /\ flowState' = IF isMounted THEN "listening" ELSE flowState
            /\ sock' = [sock EXCEPT ![nSockets + 1] = NewSocket(s)]
            /\ svc' = [svc EXCEPT ![s].pc = "connect", ![s].ws = nSockets + 1]
            /\ nSockets' = nSockets + 1
            /\ UNCHANGED <<recognizedText, extractedDestination, errorMessage,
                           isAgentSpeaking>>
    /\ lastEvent' = NoEvent
    /\ UNCHANGED <<isMounted, deepgramServiceRef, stopWaiting, graceTimer, confirmRun,
                   nServices, nMessages, sessionVars, captureVars, configVars>>

\* requestPermissions() throws: the catch block of startListening
PermissionDenied(s) ==
    /\ svc[s].pc = "perm"
    /\ SetScreen(catchStart(Screen, "Microphone permission is required"))
    /\ svc' = [svc EXCEPT ![s].pc = "failed"]
    /\ lastEvent' = NoEvent
    /\ UNCHANGED <<isMounted, deepgramServiceRef, stopWaiting, graceTimer, confirmRun,
                   sock, nServices, nSockets, nMessages, sessionVars, captureVars, configVars>>

\* ws.onopen; the resolved connect() lets the screen store the service and
\* call service.startListening(), which runs up to its first await
OnOpen(k) ==
    /\ sock[k].state = "CONNECTING"
    /\ LET s == sock[k].owner
           resolves == ~sock[k].settled
           K1 == [sock EXCEPT ![k].state = "OPEN", ![k].opened = TRUE,
                              ![k].timer = FALSE, ![k].settled = TRUE]
           S1 == [svc EXCEPT ![s].isConnected = TRUE, ![s].settingsApplied = FALSE]
       IN /\ sock' = sendSettings(S1, K1, s)
          /\ svc' = IF resolves /\ ~S1[s].isRecording
                    THEN [S1 EXCEPT ![s].pc = "prepare"] ELSE S1
          /\ deepgramServiceRef' = IF resolves THEN s ELSE deepgramServiceRef
    /\ lastEvent' = NoEvent
    /\ UNCHANGED <<flowState, recognizedText, extractedDestination, errorMessage,
                   isAgentSpeaking, isMounted, stopWaiting, graceTimer, confirmRun,
                   nServices, nSockets, nMessages, sessionVars, captureVars, configVars>>

\* the socket fails: ws.onerror and then ws.onclose; a failure before the
\* first open rejects initWebSocket(), and connectWithRetry waits to retry or
\* gives up, which ends the screen's startListening in its catch block
OnError(k) ==
    /\ sock[k].state \in {"CONNECTING", "OPEN"}
    /\ LET s == sock[k].owner
           before == ~svc[s].isConnected
           rejects == onerrorRejects(svc[s].isConnected, sock[k].settled)
           r1 == IF rejects THEN AfterReject(svc[s]) ELSE svc[s]
           scr1 == onError(Screen, "WebSocket connection error")
           scr2 == IF rejects /\ r1.pc = "failed"
                   THEN catchStart(scr1, "WebSocket connection error") ELSE scr1
       IN /\ sock' = [sock EXCEPT ![k].state = "CLOSED", ![k].timer = FALSE,
                                  ![k].settled = @ \/ before]
          /\ svc' = [svc EXCEPT ![s] = [r1 EXCEPT !.isConnected = FALSE,
                                                  !.connErrors = @ + 1]]
          /\ SetScreen(scr2)
          /\ lastEvent' = Event(Plain("error"), s, Screen, scr2)
    /\ UNCHANGED <<isMounted, deepgramServiceRef, stopWaiting, graceTimer, confirmRun,
                   nServices, nSockets, nMessages, sessionVars, captureVars, configVars>>

\* ws.onclose with no error event before it: the peer closed, or a local
\* close() completed
OnClose(k) ==
    /\ sock[k].state \in {"CONNECTING", "OPEN", "CLOSING"}
    /\ sock' = [sock EXCEPT ![k].state = "CLOSED", ![k].timer = FALSE]
    /\ svc' = [svc EXCEPT ![sock[k].owner].isConnected = FALSE]
    /\ lastEvent' = NoEvent
    /\ UNCHANGED <<screenVars, nServices, nSockets, nMessages, sessionVars, captureVars, configVars>>

\* the 10 s connection timeout of initWebSocket() fires
ConnectionTimeout(k) ==
    /\ sock[k].timer
    /\ LET s == sock[k].owner
           acts == ~svc[s].isConnected
           rejects == acts /\ ~sock[k].settled
           r1 == IF acts THEN disconnect(svc[s]) ELSE svc[s]
           r2 == IF rejects THEN AfterReject(r1) ELSE r1
           K1 == IF acts THEN close(sock, svc[s].ws) ELSE sock
       IN /\ sock' = [K1 EXCEPT ![k].timer = FALSE, ![k].settled = @ \/ acts]
          /\ svc' = [svc EXCEPT ![s] = r2]
          /\ SetScreen(IF rejects /\ r2.pc = "failed"
                       THEN catchStart(Screen, "Connection timeout - could not establish WebSocket connection")
                       ELSE Screen)
    /\ lastEvent' = NoEvent
    /\ UNCHANGED <<isMounted, deepgramServiceRef, stopWaiting, graceTimer, confirmRun,
                   nServices, nSockets, nMessages, sessionVars, captureVars, configVars>>

\* the retry delay of connectWithRetry elapses: connectWithRetry(attempt + 1)
BackoffElapsed(s) ==
    /\ svc[s].pc = "backoff" /\ nSockets + 1 \in DOMAIN sock
    /\ sock' = [sock EXCEPT ![nSockets + 1] = NewSocket(s)]
    /\ svc' = [svc EXCEPT ![s].pc = "connect", ![s].ws = nSockets + 1,
                          ![s].attempt = @ + 1, ![s].backoff = 0]
    /\ nSockets' = nSockets + 1
    /\ lastEvent' = NoEvent
    /\ UNCHANGED <<screenVars, nServices, nMessages, sessionVars, captureVars, configVars>>

\* ws.onmessage with a JSON frame: handleMessage.  An opened socket that the
\* service closed still delivers the frames that arrive before its close
\* event.
OnMessage(k, m) ==
    /\ \/ sock[k].state = "OPEN"
       \/ sock[k].state = "CLOSING" /\ sock[k].opened
    /\ nMessages < MaxMessages
    /\ LET s == sock[k].owner
           callId == nMessages + 1
           isCall == m.type = "FunctionCallRequest"
           threw == isCall /\ onFunctionCallThrows(m.function_name, m.input)
           scr1 == dispatch(Screen, m)
           K1 == IF isCall /\ ~threw
                 THEN sendFunctionCallResponse(svc, sock, s, callId) ELSE sock
       IN /\ SetScreen(scr1)
          /\ sock' = IF isCall /\ sock[k].state = "OPEN"
                     THEN [K1 EXCEPT ![k].requests = @ \cup {callId}] ELSE K1
          /\ svc' = IF m.type = "SettingsApplied"
                    THEN [svc EXCEPT ![s].settingsApplied = TRUE] ELSE svc
          /\ lastEvent' = Event(m, s, Screen, scr1)
    /\ nMessages' = nMessages + 1
    /\ UNCHANGED <<isMounted, deepgramServiceRef, stopWaiting, graceTimer, confirmRun,
                   nServices, nSockets, sessionVars, captureVars, configVars>>

\* service.startListening() runs to its end: permission, audio mode, the
\* recorder prepared and assigned, startAsync() resolved
ListenStarted(s) ==
    /\ svc[s].pc = "prepare"
    /\ svc' = [svc EXCEPT ![s].pc = "started", ![s].recording = TRUE,
                          ![s].isRecording = TRUE, ![s].recordingUri = TRUE,
                          ![s].lastFilePosition = 0]
    /\ lastEvent' = NoEvent
    /\ UNCHANGED <<screenVars, sock, nServices, nSockets, nMessages, sessionVars, captureVars, configVars>>

\* service.startListening() throws: its catch block, then the screen's
ListenFailed(s) ==
    /\ svc[s].pc = "prepare"
    /\ svc' = [svc EXCEPT ![s].pc = "failed", ![s].recording = FALSE,
                          ![s].isRecording = FALSE]
    /\ SetScreen(catchStart(Screen, "Microphone permission not granted"))
    /\ lastEvent' = NoEvent
    /\ UNCHANGED <<isMounted, deepgramServiceRef, stopWaiting, graceTimer, confirmRun,
                   sock, nServices, nSockets, nMessages, sessionVars, captureVars, configVars>>

\* the Stop button (listening): the screen's stopListening() up to the await
\* of service.stopListening(); when the service has nothing to unload the
\* await returns at once and the 5 s timer is armed.  One stop is explored
\* at a time.
ScreenStop ==
    /\ isMounted /\ flowState = "listening"
    /\ stopWaiting = 0 /\ ~graceTimer.armed
    /\ LET s == deepgramServiceRef
           awaits == s # 0 /\ svc[s].isRecording /\ svc[s].recording
       IN /\ flowState' = IF s = 0 THEN flowState ELSE "processing"
          /\ svc' = IF s = 0 THEN svc ELSE [svc EXCEPT ![s] = stopListening(svc[s])]
          /\ stopWaiting' = IF awaits THEN s ELSE 0
          /\ graceTimer' = IF s = 0 THEN graceTimer
                           ELSE [ armed |-> ~awaits, flowState |-> flowState,
                                  recognizedText |-> recognizedText,
                                  extractedDestination |-> extractedDestination ]
    /\ lastEvent' = NoEvent
    /\ UNCHANGED <<recognizedText, extractedDestination, errorMessage, isAgentSpeaking,
                   isMounted, deepgramServiceRef, confirmRun, sock, nServices, nSockets,
                   nMessages, sessionVars, captureVars, configVars>>

\* recording.stopAndUnloadAsync() settles: the rest of service.stopListening(),
\* then the rest of the screen's stopListening() if it awaited this stop
StopUnloaded(s) ==
    /\ svc[s].stopping
    /\ svc' = [svc EXCEPT ![s].stopping = FALSE, ![s].recording = FALSE,
                          ![s].recordingUri = FALSE, ![s].lastFilePosition = 0]
    /\ stopWaiting' = IF stopWaiting = s THEN 0 ELSE stopWaiting
    /\ graceTimer' = IF stopWaiting = s
                     THEN (IF isMounted THEN [graceTimer EXCEPT !.armed = TRUE] ELSE NoTimer)
                     ELSE graceTimer
    /\ lastEvent' = NoEvent
    /\ UNCHANGED <<flowState, recognizedText, extractedDestination, errorMessage,
                   isAgentSpeaking, isMounted, deepgramServiceRef, confirmRun, sock,
                   nServices, nSockets, nMessages, sessionVars, captureVars, configVars>>

\* the 5 s timer of the screen's stopListening fires, reading the values its
\* closure captured when the Stop button was rendered
GraceTimerFires ==
    /\ graceTimer.armed
    /\ flowState' = IF /\ isMounted
                       /\ graceTimer.flowState = "processing"
                       /\ ~Truthy(graceTimer.extractedDestination)
                       /\ Truthy(graceTimer.recognizedText)
                       /\ Len(Trim(graceTimer.recognizedText.chars)) # 0
                    THEN "confirming" ELSE flowState
    /\ graceTimer' = NoTimer
    /\ lastEvent' = NoEvent
    /\ UNCHANGED <<recognizedText, extractedDestination, errorMessage, isAgentSpeaking,
                   isMounted, deepgramServiceRef, stopWaiting, confirmRun, svc, sock, nServices, nSockets, nMessages,
                   sessionVars, captureVars, configVars>>

\* the Confirm button (confirming): confirmDestination() up to its first await
ConfirmDestination ==
    /\ isMounted /\ flowState = "confirming" /\ confirmRun = "none"
    /\ svc' = SvcDisconnected(svc, deepgramServiceRef)
    /\ sock' = SockDisconnected(svc, sock, deepgramServiceRef)
    /\ deepgramServiceRef' = 0
    /\ flowState' = "geocoding"
    /\ confirmRun' = "geocoding"
    /\ lastEvent' = NoEvent
    /\ UNCHANGED <<recognizedText, extractedDestination, errorMessage, isAgentSpeaking,
                   isMounted, stopWaiting, graceTimer, nServices, nSockets, nMessages,
                   sessionVars, captureVars, configVars>>

\* the stages of confirmDestination(): geocoding, locating, routing, ready
NextStage(stage) ==
    IF stage = "geocoding" THEN "locating"
    ELSE IF stage = "locating" THEN "routing"
    ELSE "ready"

ConfirmAdvances ==
    /\ confirmRun # "none"
    /\ flowState' = IF isMounted THEN NextStage(confirmRun) ELSE flowState
    /\ confirmRun' = IF confirmRun = "routing" THEN "none" ELSE NextStage(confirmRun)
    /\ lastEvent' = NoEvent
    /\ UNCHANGED <<recognizedText, extractedDestination, errorMessage, isAgentSpeaking,
                   isMounted, deepgramServiceRef, stopWaiting, graceTimer,
                   svc, sock, nServices, nSockets, nMessages, sessionVars, captureVars, configVars>>

\* a stage of confirmDestination() throws: its catch block
ConfirmFails ==
    /\ confirmRun # "none"
    /\ flowState' = IF isMounted THEN "error" ELSE flowState
    /\ errorMessage' = IF isMounted THEN "Failed to process destination. Please try again."
                       ELSE errorMessage
    /\ confirmRun' = "none"
    /\ lastEvent' = NoEvent
    /\ UNCHANGED <<recognizedText, extractedDestination, isAgentSpeaking, isMounted,
                   deepgramServiceRef, stopWaiting, graceTimer, svc, sock, nServices, nSockets, nMessages,
                   sessionVars, captureVars, configVars>>

\* the reset buttons (confirming, error, ready): resetFlow()
ResetFlow ==
    /\ isMounted /\ flowState \in {"confirming", "error", "ready"}
    /\ flowState' = "idle"
    /\ recognizedText' = Empty
    /\ extractedDestination' = NullV
    /\ errorMessage' = ""
    /\ isAgentSpeaking' = FALSE
    /\ svc' = Superseded(SvcDisconnected(svc, deepgramServiceRef))
    /\ sock' = SockDisconnected(svc, sock, deepgramServiceRef)
    /\ deepgramServiceRef' = 0
    /\ lastEvent' = NoEvent
    /\ UNCHANGED <<isMounted, stopWaiting, graceTimer, confirmRun, nServices, nSockets,
                   nMessages, sessionVars, captureVars, configVars>>

\* the screen unmounts (back button): the cleanup of its effect
Unmount ==
    /\ isMounted
    /\ isMounted' = FALSE
    /\ svc' = SvcDisconnected(svc, deepgramServiceRef)
    /\ sock' = SockDisconnected(svc, sock, deepgramServiceRef)
    /\ lastEvent' = NoEvent
    /\ UNCHANGED <<flowState, recognizedText, extractedDestination, errorMessage,
                   isAgentSpeaking, deepgramServiceRef, stopWaiting, graceTimer,
                   confirmRun, nServices, nSockets, nMessages, sessionVars, captureVars, configVars>>

Next ==
    \/ PressStart
    \/ \E s \in 1..MaxServices : PermissionGranted(s)
    \/ \E s \in 1..MaxServices : PermissionDenied(s)
    \/ \E k \in DOMAIN sock : OnOpen(k)
    \/ \E k \in DOMAIN sock : OnError(k)
    \/ \E k \in DOMAIN sock : OnClose(k)
    \/ \E k \in DOMAIN sock : ConnectionTimeout(k)
    \/ \E s \in 1..MaxServices : BackoffElapsed(s)
    \/ \E k \in DOMAIN sock, m \in Messages : OnMessage(k, m)
    \/ \E s \in 1..MaxServices : ListenFailed(s)
    \/ \E s \in 1..MaxServices : ListenStarted(s)
    \/ ScreenStop
    \/ \E s \in 1..MaxServices : StopUnloaded(s)
    \/ GraceTimerFires
    \/ ConfirmDestination
    \/ ConfirmAdvances
    \/ ConfirmFails
    \/ ResetFlow
    \/ Unmount

Spec == Init /\ [][Next]_vars

(***************************************************************************)
(* SpecConnect: connect() and its retries, with room for every socket one  *)
(* connect() can open; no frames arrive and no capture starts              *)
(***************************************************************************)
\* sockets opened over all services
MaxConnectSockets == 5

InitConnect ==
    /\ InitSessionVars
    /\ flowState = "idle"
    /\ recognizedText = Empty
    /\ extractedDestination = NullV
    /\ errorMessage = ""
    /\ isAgentSpeaking = FALSE
    /\ isMounted = TRUE
    /\ deepgramServiceRef = 0
    /\ stopWaiting = 0
    /\ graceTimer = NoTimer
    /\ confirmRun = "none"
    /\ svc = [s \in 1..MaxServices |-> NoService]
    /\ sock = [k \in 1..MaxConnectSockets |-> NoSocket]
    /\ nServices = 0
    /\ nSockets = 0
    /\ nMessages = 0
    /\ lastEvent = NoEvent
    /\ InitCaptureVars
    /\ apiKey = MIN_KEY_LENGTH

NextConnect ==
    \/ PressStart
    \/ \E s \in 1..MaxServices : PermissionGranted(s)
    \/ \E s \in 1..MaxServices : PermissionDenied(s)
    \/ \E k \in DOMAIN sock : OnOpen(k)
    \/ \E k \in DOMAIN sock : OnError(k)
    \/ \E k \in DOMAIN sock : OnClose(k)
    \/ \E k \in DOMAIN sock : ConnectionTimeout(k)
    \/ \E s \in 1..MaxServices : BackoffElapsed(s)
    \/ ResetFlow

SpecConnect == InitConnect /\ [][NextConnect]_vars

(***************************************************************************)
(* SpecConfig: the start of a session under every kind of API key, by the  *)
(* screen and by a direct call of createVoiceAgentSession()                *)
(***************************************************************************)
\* lengths of the configured key: not set, too short, just long enough
KeyLengths == {0, 1, MIN_KEY_LENGTH - 1, MIN_KEY_LENGTH, MIN_KEY_LENGTH + 1}

InitConfig ==
    /\ InitSessionVars
    /\ flowState = "idle"
    /\ recognizedText = Empty
    /\ extractedDestination = NullV
    /\ errorMessage = ""
    /\ isAgentSpeaking = FALSE
    /\ isMounted = TRUE
    /\ deepgramServiceRef = 0
    /\ stopWaiting = 0
    /\ graceTimer = NoTimer
    /\ confirmRun = "none"
    /\ svc = [s \in 1..MaxConfigServices |-> NoService]
    /\ sock = [k \in 1..MaxConfigServices |-> NoSocket]
    /\ nServices = 0
    /\ nSockets = 0
    /\ nMessages = 0
    /\ lastEvent = NoEvent
    /\ InitCaptureVars
    /\ apiKey \in KeyLengths

\* createVoiceAgentSession(callbacks) called on its own, outside the screen's
\* startListening: new DeepgramVoiceAgentService(callbacks), then connect(),
\* which throws on an invalid configuration and else opens its first socket
CreateVoiceAgentSession ==
    /\ nServices + 1 \in DOMAIN svc
    /\ LET s == nServices + 1
           configCheck == verifyDeepgramConfiguration(apiKey)
       IN IF ~configCheck.isValid
          THEN /\ svc' = [svc EXCEPT ![s] = [NoService EXCEPT !.pc = "failed"]]
               /\ UNCHANGED <<sock, nSockets>>
          ELSE /\ nSockets + 1 \in DOMAIN sock
               /\ sock' = [sock EXCEPT ![nSockets + 1] = NewSocket(s)]
               /\ svc' = [svc EXCEPT ![s] = [NoService EXCEPT !.pc = "connect",
                                                              !.ws = nSockets + 1]]
               /\ nSockets' = nSockets + 1
    /\ nServices' = nServices + 1
    /\ lastEvent' = NoEvent
    /\ UNCHANGED <<screenVars, nMessages, sessionVars, captureVars, configVars>>

NextConfig ==
    \/ PressStart
    \/ \E s \in DOMAIN svc : PermissionGranted(s)
    \/ \E s \in DOMAIN svc : PermissionDenied(s)
    \/ CreateVoiceAgentSession
    \/ ResetFlow
    \/ Unmount

SpecConfig == InitConfig /\ [][NextConfig]_vars

(***************************************************************************)
(* SpecCapture: one voice session with its native capture: the recorder    *)
(* writes its file, the 150 ms status callbacks run processAudioStream(),  *)
(* the socket fails or closes, the user stops                              *)
(***************************************************************************)
\* sockets opened: the one of the session
MaxCaptureSockets == 1

InitCapture ==
    /\ InitSessionVars
    /\ flowState = "idle"
    /\ recognizedText = Empty
    /\ extractedDestination = NullV
    /\ errorMessage = ""
    /\ isAgentSpeaking = FALSE
    /\ isMounted = TRUE
    /\ deepgramServiceRef = 0
    /\ stopWaiting = 0
    /\ graceTimer = NoTimer
    /\ confirmRun = "none"
    /\ svc = [s \in 1..MaxServices |-> NoService]
    /\ sock = [k \in 1..MaxCaptureSockets |-> NoSocket]
    /\ nServices = 0
    /\ nSockets = 0
    /\ nMessages = 0
    /\ lastEvent = NoEvent
    /\ InitCaptureVars
    /\ apiKey = MIN_KEY_LENGTH

\* sendAudio(audioData) reaches its ws.send()
sendAudioOpen(S, K, s) == WsOpen(S, K, s)

\* sendAudio(audioData) that does not reach ws.send() calls callbacks.onError
sendAudioReports_Silent(sent) == FALSE
sendAudioReports(sent) == ~sent

FreeRuns == {i \in DOMAIN runs : runs[i].stage = "none"}

\* the recorder appends a byte to its file
RecorderWrites(s) ==
    /\ svc[s].pc = "started" /\ svc[s].recording
    /\ file[s] < MaxFileBytes
    /\ file' = [file EXCEPT ![s] = @ + 1]
    /\ lastEvent' = NoEvent
    /\ UNCHANGED <<screenVars, svc, sock, nServices, nSockets, nMessages, runs, audio,
                   reported, listens, sessionVars, configVars>>

\* the status callback of the recorder (status.isRecording): a new
\* processAudioStream() passes its first test and awaits getInfoAsync()
StatusUpdate(s) ==
    /\ svc[s].pc = "started" /\ svc[s].recording
    /\ svc[s].recordingUri /\ svc[s].isRecording
    /\ FreeRuns # {}
    /\ LET i == CHOOSE x \in FreeRuns : \A y \in FreeRuns : x <= y
       IN runs' = [runs EXCEPT ![i] = [NoRun EXCEPT !.svc = s, !.stage = "info"]]
    /\ lastEvent' = NoEvent
    /\ UNCHANGED <<screenVars, svc, sock, nServices, nSockets, nMessages, file, audio,
                   reported, listens, sessionVars, configVars>>

\* getInfoAsync() resolves: a file longer than lastFilePosition is read from
\* lastFilePosition on, up to the size just seen
InfoResolved(i) ==
    /\ runs[i].stage = "info"
    /\ LET s == runs[i].svc
           currentSize == file[s]
       IN runs' = IF currentSize > svc[s].lastFilePosition
                  THEN [runs EXCEPT ![i].stage = "read",
                                    ![i].position = svc[s].lastFilePosition,
                                    ![i].currentSize = currentSize]
                  ELSE [runs EXCEPT ![i] = NoRun]
    /\ lastEvent' = NoEvent
    /\ UNCHANGED <<screenVars, svc, sock, nServices, nSockets, nMessages, file, audio,
                   reported, listens, sessionVars, configVars>>

\* readAsStringAsync() resolves: the chunk goes to sendAudio(), which hands
\* it to the socket or reports the lost connection, and lastFilePosition
\* becomes the size this run saw
ReadResolved(i) ==
    /\ runs[i].stage = "read"
    /\ LET s == runs[i].svc
           sent == sendAudioOpen(svc, sock, s)
           failed == sendAudioReports(sent)
           chunk == [from |-> runs[i].position, to |-> runs[i].currentSize]
           scr1 == IF failed
                   THEN onError(Screen, "WebSocket connection lost during streaming")
                   ELSE Screen
       IN /\ audio' = IF sent THEN [audio EXCEPT ![s] = Append(@, chunk)] ELSE audio
          /\ reported' = IF failed THEN [reported EXCEPT ![s] = Append(@, chunk)]
                          ELSE reported
          /\ svc' = [svc EXCEPT ![s].lastFilePosition = runs[i].currentSize,
                                ![s].connErrors = IF failed THEN @ + 1 ELSE @]
          /\ SetScreen(scr1)
          /\ lastEvent' = IF failed THEN Event(Plain("error"), s, Screen, scr1) ELSE NoEvent
    /\ runs' = [runs EXCEPT ![i] = NoRun]
    /\ UNCHANGED <<isMounted, deepgramServiceRef, stopWaiting, graceTimer, confirmRun,
                   sock, nServices, nSockets, nMessages, file, listens, sessionVars,
                   configVars>>

NextCapture ==
    \/ PressStart
    \/ \E s \in 1..MaxServices : PermissionGranted(s)
    \/ \E k \in DOMAIN sock : OnOpen(k)
    \/ \E k \in DOMAIN sock : OnError(k)
    \/ \E k \in DOMAIN sock : OnClose(k)
    \/ \E s \in 1..MaxServices : ListenStarted(s)
    \/ \E s \in 1..MaxServices : RecorderWrites(s)
    \/ \E s \in 1..MaxServices : StatusUpdate(s)
    \/ \E i \in DOMAIN runs : InfoResolved(i)
    \/ \E i \in DOMAIN runs : ReadResolved(i)
    \/ ScreenStop
    \/ \E s \in 1..MaxServices : StopUnloaded(s)
    \/ GraceTimerFires

SpecCapture == InitCapture /\ [][NextCapture]_vars

(***************************************************************************)
(* SpecFrames: the capture of one session together with the frames of the  *)
(* server and the connection timeout, for what goes out on a socket and    *)
(* when                                                                    *)
(***************************************************************************)
NextFrames ==
    \/ PressStart
    \/ \E s \in 1..MaxServices : PermissionGranted(s)
    \/ \E k \in DOMAIN sock : OnOpen(k)
    \/ \E k \in DOMAIN sock : OnError(k)
    \/ \E k \in DOMAIN sock : OnClose(k)
    \/ \E k \in DOMAIN sock : ConnectionTimeout(k)
    \/ \E k \in DOMAIN sock, m \in Messages : OnMessage(k, m)
    \/ \E s \in 1..MaxServices : ListenStarted(s)
    \/ \E s \in 1..MaxServices : RecorderWrites(s)
    \/ \E s \in 1..MaxServices : StatusUpdate(s)
    \/ \E i \in DOMAIN runs : InfoResolved(i)
    \/ \E i \in DOMAIN runs : ReadResolved(i)
    \/ ScreenStop
    \/ \E s \in 1..MaxServices : StopUnloaded(s)
    \/ GraceTimerFires

SpecFrames == InitCapture /\ [][NextFrames]_vars

(***************************************************************************)
(* SpecListen: services used directly through their exported class: calls  *)
(* of startListening() that may overlap at its awaits (native)             *)
(***************************************************************************)
InitListen ==
    /\ InitSessionVars
    /\ flowState = "idle"
    /\ recognizedText = Empty
    /\ extractedDestination = NullV
    /\ errorMessage = ""
    /\ isAgentSpeaking = FALSE
    /\ isMounted = TRUE
    /\ deepgramServiceRef = 0
    /\ stopWaiting = 0
    /\ graceTimer = NoTimer
    /\ confirmRun = "none"
    /\ svc = [s \in 1..MaxServices |-> [NoService EXCEPT !.pc = "new"]]
    /\ sock = [k \in 1..MaxCaptureSockets |-> NoSocket]
    /\ nServices = MaxServices
    /\ nSockets = 0
    /\ nMessages = 0
    /\ lastEvent = NoEvent
    /\ InitCaptureVars
    /\ apiKey = MIN_KEY_LENGTH

FreeListens == {i \in DOMAIN listens : listens[i].stage = "none"}

\* startListening() is called: it returns at once when isRecording is set,
\* and goes on to its awaits otherwise
StartListening(s) ==
    /\ svc[s].pc = "new"
    /\ FreeListens # {}
    /\ LET i == CHOOSE x \in FreeListens : \A y \in FreeListens : x <= y
           second == \E j \in DOMAIN listens :
                         listens[j].svc = s /\ listens[j].stage = "await"
       IN listens' = [listens EXCEPT ![i] =
                        [NoListen EXCEPT !.svc = s, !.second = second,
                                         !.stage = IF svc[s].isRecording
                                                   THEN "returned" ELSE "await"]]
    /\ lastEvent' = NoEvent
    /\ UNCHANGED <<screenVars, svc, sock, nServices, nSockets, nMessages, file, runs,
                   audio, reported, sessionVars, configVars>>

\* the catch block of startListening()
startListeningCatch(r) == [r EXCEPT !.isRecording = FALSE, !.recording = FALSE]

\* requestPermissionsAsync() answers with a status other than granted
ListenRefused(i) ==
    /\ listens[i].stage = "await"
    /\ listens' = [listens EXCEPT ![i].stage = "threw"]
    /\ svc' = [svc EXCEPT ![listens[i].svc] = startListeningCatch(@)]
    /\ lastEvent' = NoEvent
    /\ UNCHANGED <<screenVars, sock, nServices, nSockets, nMessages, file, runs,
                   audio, reported, sessionVars, configVars>>

\* new Audio.Recording() and prepareToRecordAsync() resolves: the recorder is
\* assigned, isRecording set, and startAsync() starts the capture
ListenPrepared(i) ==
    /\ listens[i].stage = "await"
    /\ listens' = [listens EXCEPT ![i].stage = "started", ![i].created = TRUE]
    /\ svc' = [svc EXCEPT ![listens[i].svc] =
                  [@ EXCEPT !.recording = TRUE, !.isRecording = TRUE,
                            !.recordingUri = TRUE, !.lastFilePosition = 0]]
    /\ lastEvent' = NoEvent
    /\ UNCHANGED <<screenVars, sock, nServices, nSockets, nMessages, file, runs,
                   audio, reported, sessionVars, configVars>>

\* new Audio.Recording() and prepareToRecordAsync() throws
ListenPrepareThrows(i) ==
    /\ listens[i].stage = "await"
    /\ listens' = [listens EXCEPT ![i].stage = "threw", ![i].created = TRUE]
    /\ svc' = [svc EXCEPT ![listens[i].svc] = startListeningCatch(@)]
    /\ lastEvent' = NoEvent
    /\ UNCHANGED <<screenVars, sock, nServices, nSockets, nMessages, file, runs,
                   audio, reported, sessionVars, configVars>>

NextListen ==
    \/ \E s \in DOMAIN svc : StartListening(s)
    \/ \E i \in DOMAIN listens : ListenRefused(i)
    \/ \E i \in DOMAIN listens : ListenPrepared(i)
    \/ \E i \in DOMAIN listens : ListenPrepareThrows(i)

SpecListen == InitListen /\ [][NextListen]_vars

(***************************************************************************)
(* Claims about the session service                                        *)
(***************************************************************************)
\* the rules of the specification, read off the recorded call
CallTrimmed == Trim(lastCall.text.chars)
RuleEmpty == lastCall.text.kind # "string" \/ Len(CallTrimmed) = 0
RuleTooLong == Len(CallTrimmed) > 500
RuleNoSession == lastCall.session = NoSession
RuleMismatch == lastCall.sid # lastCall.session.sessionId
RuleExpired == lastCall.at - lastCall.session.timestamp > 300000
RuleSuspicious ==
    \A i \in 1..Len(CallTrimmed) :
        CallTrimmed[i] \notin LowerChars \cup UpperChars \cup DigitChars
                              \cup {" ", "\t", "\n", "\r", "\f"}
FirstViolated ==
    IF RuleEmpty THEN "EmptyTranscript"
    ELSE IF RuleTooLong THEN "TooLong"
    ELSE IF RuleNoSession THEN "NoActiveSession"
    ELSE IF RuleMismatch THEN "SessionMismatch"
    ELSE IF RuleExpired THEN "SessionExpired"
    ELSE IF RuleSuspicious THEN "SuspiciousContent"
    ELSE "none"
ReasonOf(e) ==
    CASE e \in {ErrEmpty, ErrEmptyTrim} -> "EmptyTranscript"
      [] e = ErrTooLong -> "TooLong"
      [] e = ErrNoSession -> "NoActiveSession"
      [] e = ErrMismatch -> "SessionMismatch"
      [] e = ErrExpired -> "SessionExpired"
      [] e = ErrSpecial -> "SuspiciousContent"
      [] OTHER -> "none"

\* C1: a transcript tagged with the id of another session is never accepted
\* for a session: the update is refused, and every held session that is
\* validated or carries a transcript got it under its own session id.
SessionIsolation ==
    /\ lastTag.tag # lastTag.target => ~lastTag.result.valid
    /\ \A i \in 1..Len(sessions) :
         (sessions[i].isValidated \/ sessions[i].transcript # NullV)
            => origin[i] = sessions[i].sessionId

\* two sessions with different ids are held, and an otherwise acceptable
\* transcript tagged with the id of one was applied to the other
SessionIsolationWitness ==
    \E i, j \in 1..Len(sessions) :
        /\ sessions[i].sessionId # sessions[j].sessionId
        /\ lastTag.tag = sessions[i].sessionId
        /\ lastTag.target = sessions[j].sessionId
        /\ lastTag.result.error = ErrMismatch
        /\ ~sessions[j].isValidated

\* C4: validateTranscript answers with the first violated rule in the order
\* empty, too long, no session, mismatch, expired, suspicious, and succeeds
\* only when no rule is violated.
RuleOrder ==
    lastCall.op = "validate" =>
        /\ lastCall.result.valid <=> FirstViolated = "none"
        /\ ReasonOf(lastCall.result.error) = FirstViolated
        /\ lastCall.text = Str(<<" ", " ", " ">>)
             => lastCall.result.error \in {ErrEmpty, ErrEmptyTrim}
        /\ lastCall.text = Str(Rep("a", 501)) => lastCall.result.error = ErrTooLong

\* 501 valid characters validated with no session at all: too long wins
RuleOrderWitness ==
    /\ lastCall.op = "validate"
    /\ lastCall.text = Str(Rep("a", 501))
    /\ lastCall.session = NoSession
    /\ lastCall.result = Invalid(ErrTooLong)

\* C5: an otherwise valid transcript of the matching session validates up to
\* an age of exactly 300000 ms and fails as expired from 300001 ms on.
ExpiryBoundary ==
    (/\ lastCall.op = "validate"
     /\ ~RuleEmpty /\ ~RuleTooLong /\ ~RuleNoSession /\ ~RuleMismatch
     /\ ~RuleSuspicious)
      => IF lastCall.at - lastCall.session.timestamp <= 300000
           THEN lastCall.result = Valid
           ELSE lastCall.result = Invalid(ErrExpired)

\* a valid transcript validated at an age of exactly 300000 ms
ExpiryBoundaryWitness ==
    /\ lastCall.op = "validate"
    /\ lastCall.result.valid
    /\ lastCall.at - lastCall.session.timestamp = 300000

\* C6: on success updateSessionWithTranscript returns the session passed in
\* with the trimmed text as transcript, isValidated true and status completed,
\* every other field as it was.
SuccessStamping ==
    (lastCall.op = "update" /\ lastCall.result.valid) =>
        /\ lastCall.returned.transcript = Str(CallTrimmed)
        /\ lastCall.text = Str(<<" ","R","o","m","e","\n">>)
             => lastCall.returned.transcript = Str(<<"R","o","m","e">>)
        /\ lastCall.returned.isValidated
        /\ lastCall.returned.status = "completed"
        /\ lastCall.returned.sessionId = lastCall.session.sessionId
        /\ lastCall.returned.recordingId = lastCall.session.recordingId
        /\ lastCall.returned.timestamp = lastCall.session.timestamp
        /\ lastCall.returned.audioUri = lastCall.session.audioUri

\* a transcript with surrounding whitespace passed validation and was stamped
SuccessStampingWitness ==
    /\ lastCall.op = "update"
    /\ lastCall.result.valid
    /\ lastCall.text = Str(<<" ","R","o","m","e","\n">>)
    /\ lastCall.returned # NoSession

SessionIdsUnique ==
    \A i, j \in 1..Len(sessions) :
        i # j => sessions[i].sessionId # sessions[j].sessionId

\* the seven failure reasons are seven different texts
ReasonsDistinct ==
    Cardinality({ErrEmpty, ErrEmptyTrim, ErrTooLong, ErrNoSession, ErrMismatch,
                 ErrExpired, ErrSpecial}) = 7

IdempotentClearing ==
    lastCall.op = "clear" =>
        /\ lastCall.returned = NoSession
        /\ sessions = <<>>
        /\ HeldSessions = {NoSession}

\* clearSession() was called when no session was current
IdempotentClearingWitness ==
    /\ lastCall.op = "clear"
    /\ lastCall.session = NoSession
    /\ sessions = <<>>

(***************************************************************************)
(* Claims about the screen and the connection (Spec)                       *)
(***************************************************************************)
\* the last step dispatched an inbound frame or a socket error to the
\* callbacks of a service
Dispatched == lastEvent.svc # 0

\* C2 (stale events are invisible): once a new voice session has been started
\* or the flow has been reset, no transcript, function call or error delivered
\* through the callbacks of a service of an earlier session changes
\* recognizedText, extractedDestination, flowState or errorMessage.
StaleEventsInvisible ==
    (Dispatched /\ lastEvent.stale) => ~lastEvent.changed

\* the last step handed a user transcript to the screen, which stored it
StoredUserTranscript ==
    /\ Dispatched
    /\ lastEvent.frame.type = "ConversationText"
    /\ lastEvent.frame.role = "user"
    /\ isMounted

\* the verdict of validateTranscript on a text tagged with a session that is
\* current and was created at this instant
PassesGate(text) ==
    LET session == createVoiceSession(now, "4fzzzxjyl", "k2j5h8d1s")
    IN validateTranscript(text, session.sessionId, session, now).valid

\* C3 (validation gate): every value the screen stores as recognizedText from
\* an inbound user transcript has passed validateTranscript; text that is
\* empty after trimming, longer than 500 characters or only punctuation is
\* never stored.
ValidationGate ==
    StoredUserTranscript =>
        /\ recognizedText = lastEvent.frame.content
        /\ PassesGate(recognizedText)

\* the FunctionCallResponse frames sent on socket k for the call callId
ResponsesSent(k, callId) ==
    {i \in 1..Len(sock[k].sent) : sock[k].sent[i] = FunctionCallResponse(callId)}

\* C9 (exactly-one acknowledgment): every FunctionCallRequest received on an
\* open connection has exactly one FunctionCallResponse with its
\* function_call_id sent on that connection, also when the callback throws,
\* when the destination is not accepted and when the function is not
\* start_navigation.
ExactlyOneAcknowledgment ==
    \A k \in 1..MaxSockets :
        \A callId \in sock[k].requests : Cardinality(ResponsesSent(k, callId)) = 1

\* the last step dispatched a start_navigation call with a destination to a
\* mounted screen
NavigationCall ==
    /\ Dispatched
    /\ lastEvent.frame.type = "FunctionCallRequest"
    /\ lastEvent.frame.function_name = "start_navigation"
    /\ lastEvent.frame.input.present
    /\ Truthy(lastEvent.frame.input.destination)
    /\ isMounted

\* C10 (function-call gating): a start_navigation call with a destination
\* moves the flow to confirming with that destination when it arrives while
\* the flow is listening or processing, and changes no presentation state when
\* the flow is in any other state.
FunctionCallGating ==
    NavigationCall =>
        IF lastEvent.flowBefore \in {"listening", "processing"}
        THEN /\ flowState = "confirming"
             /\ extractedDestination = lastEvent.frame.input.destination
        ELSE ~lastEvent.changed

\* the last step invoked onTranscript or onFunctionCall
CallbackInvoked ==
    /\ Dispatched
    /\ lastEvent.frame.type \in {"ConversationText", "FunctionCallRequest"}

\* C11 (no dispatch after disconnect): once disconnect() has been called on a
\* service or its socket has reported close, no later inbound frame of that
\* socket invokes onTranscript or onFunctionCall: every such callback runs
\* while the service still holds its socket and the socket is open.
NoDispatchAfterDisconnect ==
    CallbackInvoked => WsOpen(svc, sock, lastEvent.svc)

(***************************************************************************)
(* Claims about connect() and its retries                                  *)
(***************************************************************************)
\* the sockets one connect() of service s has opened so far
AttemptsMade(s) == Cardinality({k \in DOMAIN sock : sock[k].owner = s})

\* C12 (retry bound): one connect() opens at most 3 sockets before it reports
\* failure, and the wait before retry number n is 1 s doubled n - 1 times:
\* 1 s, 2 s, 4 s.
RetryBound ==
    \A s \in DOMAIN svc :
        /\ AttemptsMade(s) <= 3
        /\ svc[s].pc = "backoff" =>
               svc[s].backoff = 1000 * (2 ^ (AttemptsMade(s) - 1))

\* the frames of one type that service s has sent over all its sockets
RECURSIVE CountType(_, _)
CountType(frames, type) ==
    IF frames = <<>> THEN 0
    ELSE (IF Head(frames).type = type THEN 1 ELSE 0) + CountType(Tail(frames), type)

RECURSIVE SumOver(_, _, _)
SumOver(ks, s, type) ==
    IF ks = {} THEN 0
    ELSE LET k == CHOOSE x \in ks : TRUE
         IN (IF sock[k].owner = s THEN CountType(sock[k].sent, type) ELSE 0)
            + SumOver(ks \ {k}, s, type)

SettingsSent(s) == SumOver(DOMAIN sock, s, "Settings")

\* ws.onopen ran on this many sockets of service s: one onConnected each
ConnectedEvents(s) == Cardinality({k \in DOMAIN sock : sock[k].owner = s /\ sock[k].opened})

\* the third attempt of the connect() of service s has just opened, and the
\* user has neither reset the flow nor left the screen meanwhile
ThirdAttemptOpened(s) ==
    /\ svc[s].attempt = 2 /\ svc[s].pc = "prepare"
    /\ WsOpen(svc, sock, s)
    /\ ~svc[s].superseded /\ isMounted

\* C13 (recovered connect): when the first two attempts of a connect() fail
\* and the third opens, connect() has resolved with one onConnected and one
\* Settings message, and the screen is listening, not in the error state.
RecoveredConnect ==
    \A s \in DOMAIN svc :
        ThirdAttemptOpened(s) =>
            /\ ConnectedEvents(s) = 1
            /\ SettingsSent(s) = 1
            /\ flowState = "listening"

\* an event is still due that settles the pending initWebSocket() of socket
\* k: it opens or fails (onopen, onerror) or its connection timeout fires
CanStillSettle(k) == sock[k].state = "CONNECTING" \/ sock[k].timer

\* C14 (connect always settles): a connect() that has neither resolved nor
\* rejected is waiting for a retry delay or for a socket that can still
\* settle it; no sequence of transport events leaves it pending for ever.
ConnectAlwaysSettles ==
    \A s \in DOMAIN svc :
        svc[s].pc = "connect" => CanStillSettle(svc[s].ws)

(***************************************************************************)
(* Claims about the native capture                                         *)
(***************************************************************************)
\* the ranges handed to the socket follow each other from byte 0 on
InFileOrder(ranges) ==
    /\ ranges # <<>> => ranges[1].from = 0
    /\ \A j \in 1..(Len(ranges) - 1) : ranges[j + 1].from = ranges[j].to

\* C15 (audio order): the audio handed to the socket is the recorded file's
\* bytes in file order: no range is sent twice, skipped or out of order, also
\* when two processAudioStream() runs are in flight at once.
AudioOrder ==
    \A s \in DOMAIN audio : InFileOrder(audio[s])

\* the bytes of its file that service s has handed to the socket
BytesSent(s) == {b \in 1..file[s] : \E j \in 1..Len(audio[s]) :
                     audio[s][j].from < b /\ b <= audio[s][j].to}

\* service.stopListening() of a started capture has run to its end, with the
\* socket open throughout and no processAudioStream() still in flight
StoppedOnOpenConnection(s) ==
    /\ svc[s].pc = "started" /\ ~svc[s].recording /\ ~svc[s].isRecording
    /\ WsOpen(svc, sock, s)
    /\ \A i \in DOMAIN runs : runs[i].svc # s

\* C16 (final flush): when stopListening() has ended on an open connection,
\* the audio recorded since the last streamed chunk has been sent too: no
\* recorded byte remains unsent.
FinalFlush ==
    \A s \in DOMAIN svc :
        StoppedOnOpenConnection(s) => BytesSent(s) = 1..file[s]

\* the socket of service s had opened and then failed or was closed by the
\* other side (the service itself has not disconnected), on the first attempt
\* of its connect()
MidSessionFailure(s) ==
    /\ svc[s].ws # 0 /\ svc[s].attempt = 0
    /\ sock[svc[s].ws].opened /\ sock[svc[s].ws].state = "CLOSED"

\* C17 (mid-session error reported once): once a connection that had opened
\* has failed or closed, onError has been invoked exactly once for it: not
\* zero times, and not once more for every audio chunk produced afterwards.
MidSessionErrorOnce ==
    \A s \in DOMAIN svc :
        MidSessionFailure(s) => svc[s].connErrors = 1

(***************************************************************************)
(* Claims about sessions in succession                                     *)
(***************************************************************************)
\* service p has released the microphone and its sockets are closed
TornDown(p) ==
    /\ ~svc[p].recording
    /\ \A k \in DOMAIN sock : sock[k].owner = p => sock[k].state = "CLOSED"

\* C18 (exclusive microphone): a service that holds a prepared or recording
\* capture is the only one that does, and every service created before it has
\* had its capture stopped and unloaded and its socket closed.
ExclusiveMicrophone ==
    \A s \in DOMAIN svc :
        svc[s].recording => \A p \in 1..(s - 1) : TornDown(p)

(***************************************************************************)
(* Claims about the configuration                                          *)
(***************************************************************************)
\* connect() of service s has been called
ConnectCalled(s) == svc[s].pc \notin {"unused", "perm"}

\* C21 (configuration errors are fatal and immediate): with the API key
\* missing or shorter than 20 characters, a connect() that has been called
\* has failed, with no socket created, no retry scheduled and no connection
\* callback invoked, and the screen's start ends in the error state without
\* creating a service.
ConfigErrorsFatal ==
    apiKey < 20 =>
        /\ \A s \in DOMAIN svc :
              ConnectCalled(s) =>
                  /\ svc[s].pc = "failed"
                  /\ svc[s].ws = 0 /\ AttemptsMade(s) = 0
                  /\ svc[s].backoff = 0 /\ svc[s].attempt = 0
                  /\ svc[s].connErrors = 0 /\ ~svc[s].isConnected
        /\ nSockets = 0
        /\ \A s \in DOMAIN svc : svc[s].pc # "perm"
        /\ flowState \in {"idle", "error"}
        /\ flowState = "error" =>
              errorMessage = IF apiKey = 0 THEN ErrKeyMissing ELSE ErrKeyTooShort

\* connect() was called with a key of 19 characters and the screen's own
\* start was refused too
ConfigErrorsFatalWitness ==
    /\ apiKey = 19
    /\ \E s \in DOMAIN svc : svc[s].pc = "failed"
    /\ flowState = "error"
    /\ errorMessage = ErrKeyTooShort

(***************************************************************************)
(* Claims about teardown and the end of a session                          *)
(***************************************************************************)
\* C22 (teardown completeness): once the screen is unmounted, no socket is
\* open and no service is capturing, also when the unmount came while
\* connect() or startListening() of the session was still in flight.  (After
\* the unmount nothing calls disconnect() or stopListening() any more, so a
\* socket or capture found then is never torn down by the program.)
TeardownComplete ==
    ~isMounted =>
        /\ \A k \in DOMAIN sock : sock[k].state # "OPEN"
        /\ \A s \in DOMAIN svc : ~svc[s].isRecording

\* C23 (processing ends): a flow in processing is still waiting for its stop
\* to finish or for its 5 s grace timer; once the timer has fired the flow
\* has left processing, for confirming when a transcript was received and
\* for error otherwise.
ProcessingEnds ==
    (isMounted /\ flowState = "processing") =>
        (stopWaiting # 0 \/ graceTimer.armed)

\* C24 (terminal states): a held session that is completed is not changed by
\* any later step (a later valid transcript for its sessionId leaves its
\* transcript and status alone), a session in error is never moved to
\* completed, and no session returns to idle.
TerminalStates ==
    [][\A i \in 1..Len(sessions) :
          /\ sessions[i].status = "completed" => sessions'[i] = sessions[i]
          /\ sessions[i].status = "error" => sessions'[i].status # "completed"
          /\ sessions[i].status # "idle" => sessions'[i].status # "idle"]_vars

\* the bytes of the file of s that sendAudio() reported lost
BytesReported(s) == {b \in 1..file[s] : \E j \in 1..Len(reported[s]) :
                        reported[s][j].from < b /\ b <= reported[s][j].to}

Opened == {k \in DOMAIN sock : sock[k].opened}

\* C26 (configuration first): a socket that opened has its connection timeout
\* cancelled and carries exactly one Settings frame, its first frame; a step
\* that sends a frame on a socket leaves that socket open, and audio goes out
\* only on an open socket that already carries its Settings frame.
ConfigurationFirst ==
    /\ [](\A k \in Opened :
            /\ ~sock[k].timer
            /\ Len(sock[k].sent) >= 1
            /\ sock[k].sent[1] = SettingsFrame
            /\ CountType(sock[k].sent, "Settings") = 1)
    /\ [](\A k \in DOMAIN sock : sock[k].sent # <<>> => k \in Opened)
    /\ [][/\ \A k \in DOMAIN sock :
               sock'[k].sent # sock[k].sent => sock'[k].state = "OPEN"
           /\ \A s \in DOMAIN audio :
               audio'[s] # audio[s] =>
                   /\ WsOpen(svc, sock, s)
                   /\ sock[svc[s].ws].sent # <<>>
                   /\ sock[svc[s].ws].sent[1] = SettingsFrame]_vars

\* an opened socket carried its Settings frame, then a FunctionCallResponse,
\* and audio of its service went out
ConfigurationFirstWitness ==
    \E k \in Opened :
        /\ Len(sock[k].sent) >= 2
        /\ sock[k].sent[2].type = "FunctionCallResponse"
        /\ audio[sock[k].owner] # <<>>

\* the sockets of service s, in the order they were created
SocketsOf(s) == {k \in DOMAIN sock : sock[k].owner = s}

ConnectionFlagCurrent ==
    /\ [](\A s \in DOMAIN svc : svc[s].isConnected => WsOpen(svc, sock, s))
    /\ [][\A s \in DOMAIN svc :
             (svc[s].isConnected /\ WsOpen(svc, sock, s) /\ WsOpen(svc', sock', s))
                 => svc'[s].isConnected]_vars

\* the startListening() calls on service s that started a capture
CapturesStarted(s) == {i \in DOMAIN listens : listens[i].svc = s /\ listens[i].stage = "started"}

\* C29 (startListening is re-entrancy safe): a startListening() call issued
\* while another call on the same service stands at its awaits creates no
\* recording, and the calls on one service start at most one capture.
ReentrancySafe ==
    /\ \A i \in DOMAIN listens : listens[i].second => ~listens[i].created
    /\ \A s \in DOMAIN svc : Cardinality(CapturesStarted(s)) <= 1

\* C30 (validated-session invariant): every held session, made by
\* createVoiceSession() and stamped by any number of
\* updateSessionWithTranscript() calls, is validated exactly when it has a
\* transcript and is completed; a session never stamped is idle with no
\* transcript and not validated; and a transcript is a trimmed string of 1
\* to 500 characters that is not made of punctuation only.
ValidatedSession ==
    \A i \in 1..Len(sessions) :
        LET s == sessions[i] IN
        /\ s.isValidated <=> (s.transcript # NullV /\ s.status = "completed")
        /\ s.status \in {"idle", "completed"}
        /\ s.status = "idle" => (s.transcript = NullV /\ ~s.isValidated)
        /\ s.transcript # NullV =>
               /\ s.transcript.kind = "string"
               /\ Trim(s.transcript.chars) = s.transcript.chars
               /\ Len(s.transcript.chars) \in 1..MAX_TRANSCRIPT_LENGTH
               /\ ~OnlySpecialChars(s.transcript.chars)

\* one session stamped with the trimmed form of "Paris ", one still fresh
ValidatedSessionWitness ==
    /\ Len(sessions) = 2
    /\ \E i \in 1..2 : sessions[i].isValidated /\ sessions[i].transcript = Paris
                         /\ sessions[i].status = "completed"
    /\ \E i \in 1..2 : sessions[i].status = "idle" /\ sessions[i].transcript = NullV

====
